---- MODULE Spec2Model ----
(***************************************************************************)
(* bootstrap_commitlogs: the one-shot commit log bootstrap tool            *)
(* (src/tools/bootstrap_commitlogs/main/main.go).                          *)
(*                                                                         *)
(* The state machine follows func main statement by statement: the flag    *)
(* check, the optional debug listener goroutine, the time window, the      *)
(* shard planner (explicit list or count), the bootstrap call and the      *)
(* result report.  The listener goroutine interleaves with the main path.  *)
(*                                                                         *)
(* Number representation.  Times are whole unix seconds and durations are  *)
(* whole seconds.  A Go int (64 bit) is the record [top, hi, lo] standing  *)
(* for top*2^32 + hi*2^16 + lo with hi, lo in 0..65535 (two's complement,  *)
(* top signed); a uint32 is the pair <<hi, lo>>, so the conversion         *)
(* uint32(x) keeps exactly the low 32 bits.                                *)
(***************************************************************************)
EXTENDS Integers, Sequences, FiniteSets, TLC

VARIABLES
    flags,            \* the parsed command line (lines 33-63), fixed after flag.Parse
    pc,               \* position of the main goroutine
    pcL,              \* position of the debug listener goroutine
    listenErr,        \* TRUE once http.ListenAndServe has returned an error
    startInclusive,   \* line 81
    endExclusive,     \* line 83
    shardTimeRanges,  \* line 77: map uint32 -> set of ranges
    shardsAll,        \* line 86
    tokens,           \* the rest of the slice ranged over at line 90
    i,                \* the loop variable of line 105
    sourceBuilt,      \* TRUE once NewCommitLogBootstrapper has returned a source
    bootstrapCalls,   \* number of calls of source.Bootstrap
    result,           \* what source.Bootstrap returned (line 218)
    reported,         \* shards the loop of line 228 has visited
    log,              \* the lines written to the logger
    exited,           \* TRUE once the process has ended
    exitStatus        \* its exit status, meaningful when exited

vars == <<flags, pc, pcL, listenErr, startInclusive, endExclusive, shardTimeRanges,
          shardsAll, tokens, i, sourceBuilt, bootstrapCalls, result, reported, log,
          exited, exitStatus>>

(***************************************************************************)
(* Bounds of the model.                                                    *)
(***************************************************************************)
MaxTokens == 3
MaxCount == 2
MaxSeries == 1
MaxBlockSize == 4
MaxTimestamp == 12

(***************************************************************************)
(* Machine integers.                                                       *)
(***************************************************************************)
Word == 65536

\* a small mathematical integer as a Go int
ToInt(v) == [top |-> (v \div Word) \div Word, hi |-> (v \div Word) % Word, lo |-> v % Word]

\* x > 0 on a Go int
IsPositive(x) == x.top > 0 \/ (x.top = 0 /\ (x.hi > 0 \/ x.lo > 0))

\* uint32(x): the low 32 bits
Uint32(x) == <<x.hi, x.lo>>

\* a < b on uint32
U32Less(a, b) == a[1] < b[1] \/ (a[1] = b[1] /\ a[2] < b[2])

\* i++ on uint32
U32Inc(a) ==
    IF a[2] + 1 < Word THEN <<a[1], a[2] + 1>>
    ELSE IF a[1] + 1 < Word THEN <<a[1] + 1, 0>>
    ELSE <<0, 0>>

\* a uint32 seen as an integer again
Widen(k) == [top |-> 0, hi |-> k[1], lo |-> k[2]]

\* the uint32 values below b
U32Below(b) == {<<b[1], l>> : l \in 0 .. (b[2] - 1)} \cup ((0 .. (b[1] - 1)) \X (0 .. (Word - 1)))

(***************************************************************************)
(* Strings are sequences of one-character strings.                         *)
(***************************************************************************)
Digits == {"0", "1", "2", "3", "4", "5", "6", "7", "8", "9"}

DigitVal(c) ==
    CASE c = "0" -> 0 [] c = "1" -> 1 [] c = "2" -> 2 [] c = "3" -> 3 [] c = "4" -> 4
      [] c = "5" -> 5 [] c = "6" -> 6 [] c = "7" -> 7 [] c = "8" -> 8 [] c = "9" -> 9

\* strings.TrimSpace: leading and trailing white space removed
RECURSIVE TrimLeft(_)
TrimLeft(s) == IF s # <<>> /\ Head(s) = " " THEN TrimLeft(Tail(s)) ELSE s

RECURSIVE TrimRight(_)
TrimRight(s) ==
    IF s # <<>> /\ s[Len(s)] = " " THEN TrimRight(SubSeq(s, 1, Len(s) - 1)) ELSE s

TrimSpace(s) == TrimRight(TrimLeft(s))

\* strings.Split(s, ","): the pieces between the commas, n commas give n+1 pieces
RECURSIVE SplitFrom(_, _)
SplitFrom(s, piece) ==
    IF s = <<>> THEN <<piece>>
    ELSE IF Head(s) = "," THEN <<piece>> \o SplitFrom(Tail(s), <<>>)
    ELSE SplitFrom(Tail(s), Append(piece, Head(s)))

Split(s) == SplitFrom(s, <<>>)

\* the digit loop of strconv.Atoi: -1 stands for a syntax error
RECURSIVE ParseDigits(_, _)
ParseDigits(s, n) ==
    IF s = <<>> THEN n
    ELSE IF Head(s) \notin Digits THEN -1
    ELSE ParseDigits(Tail(s), n * 10 + DigitVal(Head(s)))

\* strconv.Atoi on a string shorter than 19 characters: an optional sign, then
\* decimal digits only; a negative number is a valid result
Atoi(s) ==
    LET signed == s # <<>> /\ Head(s) \in {"-", "+"}
        body == IF signed THEN Tail(s) ELSE s
        n == ParseDigits(body, 0)
    IN  IF body = <<>> \/ n < 0 THEN [err |-> TRUE, value |-> ToInt(0)]
        ELSE [err |-> FALSE, value |-> ToInt(IF Head(s) = "-" THEN 0 - n ELSE n)]

(***************************************************************************)
(* Time: time.Unix(sec, 0), Time.Truncate and Time.Add on whole seconds.   *)
(***************************************************************************)
SecondsPerDay == 86400

\* days from the zero Time (January 1, year 1) to the unix epoch
UnixToInternalDays == 1969 * 365 + 1969 \div 4 - 1969 \div 100 + 1969 \div 400

\* Time.Truncate(d): rounds down to a multiple of d since the zero Time, and
\* returns t unchanged when d <= 0.  The offset of the unix epoch is reduced
\* modulo d factor by factor.
Truncate(t, d) ==
    IF d <= 0 THEN t
    ELSE t - (((t % d) + ((UnixToInternalDays % d) * (SecondsPerDay % d))) % d)

\* line 81
StartOf(now, blockSize) == Truncate(now, blockSize) + (0 - blockSize)

\* line 83
EndOf(now, blockSize) == Truncate(now, blockSize) + blockSize * 2

(***************************************************************************)
(* The command lines the model starts from.                                *)
(***************************************************************************)
DefaultPathPrefix == <<"/", "v">>
DefaultNamespace == <<"m">>
DebugAddress == <<":", "8">>
DefaultBlockSize == 600
DefaultTimestamp == 2 * DefaultBlockSize + 300

\* the pieces a shard list is put together from
Pieces ==
    { <<>>, <<" ">>, <<"5">>, <<" ", "7", " ">>, <<"-", "1">>, <<"a">> }

RECURSIVE Join(_)
Join(ps) ==
    IF ps = <<>> THEN <<>>
    ELSE IF Len(ps) = 1 THEN ps[1]
    ELSE ps[1] \o <<",">> \o Join(Tail(ps))

ShardLists == {Join(ps) : ps \in UNION {[1 .. n -> Pieces] : n \in 0 .. MaxTokens}}

\* shards-count values: small ones, small ones plus 2^32, and -1
ShardCounts == {[top |-> t, hi |-> 0, lo |-> l] : t \in {0, 1}, l \in 0 .. MaxCount}
                 \cup {ToInt(-1)}

BlockSizes == (-2 .. MaxBlockSize) \cup {DefaultBlockSize, 0 - DefaultBlockSize}

Timestamps == (-MaxTimestamp .. MaxTimestamp) \cup {DefaultTimestamp}

DefaultFlags ==
    [pathPrefix |-> DefaultPathPrefix, namespace |-> DefaultNamespace,
     blockSize |-> DefaultBlockSize, shardsCount |-> ToInt(MaxCount), shards |-> <<>>,
     debugListenAddress |-> <<>>, currentUnixTimestamp |-> DefaultTimestamp]

\* the shard selection varies
FlagsShards ==
    {[DefaultFlags EXCEPT !.shards = s, !.shardsCount = c] :
        s \in ShardLists, c \in ShardCounts}

\* the time window varies
FlagsTimes ==
    {[DefaultFlags EXCEPT !.blockSize = b, !.currentUnixTimestamp = t] :
        b \in BlockSizes, t \in Timestamps}

\* the required strings and the debug listener vary
FlagsOther ==
    {[DefaultFlags EXCEPT !.pathPrefix = p, !.namespace = n, !.debugListenAddress = a,
                          !.shards = s, !.shardsCount = c] :
        p \in {<<>>, DefaultPathPrefix}, n \in {<<>>, DefaultNamespace},
        a \in {<<>>, DebugAddress},
        s \in {Join(ps) : ps \in [1 .. 1 -> Pieces]} \cup {<<"5", ",", "a">>, <<"5", ",", "7">>},
        c \in {ToInt(0), ToInt(MaxCount)}}

NoResult == [ok |-> FALSE, shardResults |-> <<>>, unfulfilled |-> 0]

Init ==
    /\ flags \in FlagsShards \cup FlagsTimes \cup FlagsOther
    /\ pc = "flags"
    /\ pcL = "none"
    /\ listenErr = FALSE
    /\ startInclusive = 0
    /\ endExclusive = 0
    /\ shardTimeRanges = <<>>
    /\ shardsAll = <<>>
    /\ tokens = <<>>
    /\ i = <<0, 0>>
    /\ sourceBuilt = FALSE
    /\ bootstrapCalls = 0
    /\ result = NoResult
    /\ reported = {}
    /\ log = <<>>
    /\ exited = FALSE
    /\ exitStatus = 0

(***************************************************************************)
(* Helpers of the actions.                                                 *)
(***************************************************************************)
NoShard == <<>>

Line(msg, shard, n, m) == [msg |-> msg, shard |-> shard, n |-> n, m |-> m]

\* os.Exit(status), and the return of main with status 0
Exit(status) == exited' = TRUE /\ exitStatus' = status

\* log.Fatalf: writes the line and ends the process with status 1
Fatal(msg) == log' = Append(log, Line(msg, NoShard, 0, 0)) /\ Exit(1)

\* lines 99-100 and 106-107: the entry of shard k becomes the one range
PutRangeReset(m, k, rng) == [x \in {k} |-> {rng}]
PutRange(m, k, rng) == [x \in (DOMAIN m) \cup {k} |-> IF x = k THEN {rng} ELSE m[x]]

\* lines 89, 104, 110: which way the planner goes
PlanBranchCountFirst(shards, shardsCount) ==
    IF IsPositive(shardsCount) THEN "count"
    ELSE IF TrimSpace(shards) # <<>> THEN "list"
    ELSE "usage"
PlanBranchNonNegative(shards, shardsCount) ==
    IF TrimSpace(shards) # <<>> THEN "list"
    ELSE IF shardsCount.top >= 0 THEN "count"
    ELSE "usage"
PlanBranch(shards, shardsCount) ==
    IF TrimSpace(shards) # <<>> THEN "list"
    ELSE IF IsPositive(shardsCount) THEN "count"
    ELSE "usage"

\* lines 91-98: what the loop does with one piece of the list
TokenVerdictIgnoreErr(shard) ==
    IF TrimSpace(shard) = <<>> THEN "invalid" ELSE "ok"
TokenVerdict(shard) ==
    IF TrimSpace(shard) = <<>> THEN "invalid"
    ELSE IF Atoi(TrimSpace(shard)).err THEN "unparsable"
    ELSE "ok"

\* line 105: the loop condition i < uint32(shardsCount)
CountLoopCondInclusive(idx, shardsCount) == ~U32Less(Uint32(shardsCount), idx)
CountLoopCond(idx, shardsCount) == U32Less(idx, Uint32(shardsCount))

\* lines 219-221: where the main path goes after source.Bootstrap returned
AfterBootstrapIgnoreErr(err) == "aggregate"
AfterBootstrap(err) == IF err THEN "fatal" ELSE "aggregate"

\* lines 71-73: what the listener goroutine does with the error
ListenerOnErrorIgnore(err) == "serving"
ListenerOnError(err) == IF err THEN "failed" ELSE "serving"

\* line 228: the shards the range loop has still to visit
ShardsToVisitAgain(res, seen) == DOMAIN res.shardResults
ShardsToVisit(res, seen) == (DOMAIN res.shardResults) \ seen

(***************************************************************************)
(* The main goroutine.                                                     *)
(***************************************************************************)
\* lines 46-51
CheckFlags ==
    /\ ~exited /\ pc = "flags"
    /\ IF flags.pathPrefix = <<>> \/ flags.namespace = <<>>
       THEN Exit(1) /\ pc' = pc
       ELSE pc' = "debug" /\ UNCHANGED <<exited, exitStatus>>
    /\ UNCHANGED <<flags, pcL, listenErr, startInclusive, endExclusive, shardTimeRanges,
                   shardsAll, tokens, i, sourceBuilt, bootstrapCalls, result, reported, log>>

\* lines 65-75: the go statement
StartDebugListener ==
    /\ ~exited /\ pc = "debug"
    /\ pcL' = IF flags.debugListenAddress # <<>> THEN "start" ELSE pcL
    /\ pc' = "range"
    /\ UNCHANGED <<flags, listenErr, startInclusive, endExclusive, shardTimeRanges,
                   shardsAll, tokens, i, sourceBuilt, bootstrapCalls, result, reported, log,
                   exited, exitStatus>>

\* lines 77-86
ComputeRange ==
    /\ ~exited /\ pc = "range"
    /\ shardTimeRanges' = <<>>
    /\ startInclusive' = StartOf(flags.currentUnixTimestamp, flags.blockSize)
    /\ endExclusive' = EndOf(flags.currentUnixTimestamp, flags.blockSize)
    /\ shardsAll' = <<>>
    /\ pc' = "plan"
    /\ UNCHANGED <<flags, pcL, listenErr, tokens, i, sourceBuilt, bootstrapCalls, result,
                   reported, log, exited, exitStatus>>

\* lines 89-90, 104-105, 110-114
PlanShards ==
    /\ ~exited /\ pc = "plan"
    /\ LET way == PlanBranch(flags.shards, flags.shardsCount)
       IN  \/ /\ way = "list"
              /\ tokens' = Split(flags.shards)
              /\ pc' = "list"
              /\ UNCHANGED <<i, log, exited, exitStatus>>
           \/ /\ way = "count"
              /\ i' = <<0, 0>>
              /\ pc' = "count"
              /\ UNCHANGED <<tokens, log, exited, exitStatus>>
           \/ /\ way = "usage"
              /\ log' = Append(log, Line("need shards or shards-count", NoShard, 0, 0))
              /\ Exit(1)
              /\ UNCHANGED <<pc, tokens, i>>
    /\ UNCHANGED <<flags, pcL, listenErr, startInclusive, endExclusive, shardTimeRanges,
                   shardsAll, sourceBuilt, bootstrapCalls, result, reported>>

\* lines 90-102: one iteration over the pieces of the list
ParseShard ==
    /\ ~exited /\ pc = "list" /\ tokens # <<>>
    /\ LET verdict == TokenVerdict(Head(tokens))
           value == Atoi(TrimSpace(Head(tokens))).value
       IN  \/ /\ verdict = "invalid"
              /\ Fatal("Invalid shard list")
              /\ UNCHANGED <<pc, shardTimeRanges, shardsAll, tokens>>
           \/ /\ verdict = "unparsable"
              /\ Fatal("could not parse shard")
              /\ UNCHANGED <<pc, shardTimeRanges, shardsAll, tokens>>
           \/ /\ verdict = "ok"
              /\ shardTimeRanges' =
                     PutRange(shardTimeRanges, Uint32(value), <<startInclusive, endExclusive>>)
              /\ shardsAll' = Append(shardsAll, Uint32(value))
              /\ tokens' = Tail(tokens)
              /\ pc' = IF Tail(tokens) = <<>> THEN "configure" ELSE "list"
              /\ UNCHANGED <<log, exited, exitStatus>>
    /\ UNCHANGED <<flags, pcL, listenErr, startInclusive, endExclusive, i, sourceBuilt,
                   bootstrapCalls, result, reported>>

\* lines 105-109: the loop test and one iteration
CountShard ==
    /\ ~exited /\ pc = "count"
    /\ IF CountLoopCond(i, flags.shardsCount)
       THEN /\ shardTimeRanges' = PutRange(shardTimeRanges, i, <<startInclusive, endExclusive>>)
            /\ shardsAll' = Append(shardsAll, i)
            /\ i' = U32Inc(i)
            /\ pc' = pc
       ELSE /\ pc' = "configure"
            /\ UNCHANGED <<shardTimeRanges, shardsAll, i>>
    /\ UNCHANGED <<flags, pcL, listenErr, startInclusive, endExclusive, tokens, sourceBuilt,
                   bootstrapCalls, result, reported, log, exited, exitStatus>>

\* lines 116-201: the "configured" line, the pools and options, "bootstrapping"
Configure ==
    /\ ~exited /\ pc = "configure"
    /\ log' = log \o <<Line("configured", NoShard, Len(shardsAll), 0),
                       Line("bootstrapping", NoShard, 0, 0)>>
    /\ pc' = "source"
    /\ UNCHANGED <<flags, pcL, listenErr, startInclusive, endExclusive, shardTimeRanges,
                   shardsAll, tokens, i, sourceBuilt, bootstrapCalls, result, reported,
                   exited, exitStatus>>

\* lines 204-208
NewCommitLogBootstrapper ==
    /\ ~exited /\ pc = "source"
    /\ \E err \in BOOLEAN :
          IF err
          THEN Fatal("bootstrapper error") /\ UNCHANGED <<pc, sourceBuilt>>
          ELSE sourceBuilt' = TRUE /\ pc' = "metadata" /\ UNCHANGED <<log, exited, exitStatus>>
    /\ UNCHANGED <<flags, pcL, listenErr, startInclusive, endExclusive, shardTimeRanges,
                   shardsAll, tokens, i, bootstrapCalls, result, reported>>

\* lines 210-217
NewMetadata ==
    /\ ~exited /\ pc = "metadata"
    /\ \E err \in BOOLEAN :
          IF err
          THEN Fatal("metadata error") /\ pc' = pc
          ELSE pc' = "bootstrap" /\ UNCHANGED <<log, exited, exitStatus>>
    /\ UNCHANGED <<flags, pcL, listenErr, startInclusive, endExclusive, shardTimeRanges,
                   shardsAll, tokens, i, sourceBuilt, bootstrapCalls, result, reported>>

\* what source.Bootstrap can return for the requested shards
BootstrapResults(requested) ==
    {[ok |-> TRUE, shardResults |-> [k \in S |-> n], unfulfilled |-> u] :
        S \in SUBSET requested, n \in 0 .. MaxSeries, u \in {0, Cardinality(requested)}}

\* lines 218-221
Bootstrap ==
    /\ ~exited /\ pc = "bootstrap"
    /\ bootstrapCalls' = bootstrapCalls + 1
    /\ \E err \in BOOLEAN :
          LET way == AfterBootstrap(err)
          IN  \/ /\ way = "fatal"
                 /\ Fatal("failed to bootstrap")
                 /\ UNCHANGED <<pc, result>>
              \/ /\ way = "aggregate"
                 /\ \E r \in BootstrapResults(DOMAIN shardTimeRanges) :
                       result' = [r EXCEPT !.ok = ~err]
                 /\ pc' = "aggregate"
                 /\ UNCHANGED <<log, exited, exitStatus>>
    /\ UNCHANGED <<flags, pcL, listenErr, startInclusive, endExclusive, shardTimeRanges,
                   shardsAll, tokens, i, sourceBuilt, reported>>

\* lines 223-226
ReportAggregate ==
    /\ ~exited /\ pc = "aggregate"
    /\ log' = Append(log, Line("bootstrapped", NoShard,
                               Cardinality(DOMAIN result.shardResults), result.unfulfilled))
    /\ reported' = {}
    /\ pc' = "shards"
    /\ UNCHANGED <<flags, pcL, listenErr, startInclusive, endExclusive, shardTimeRanges,
                   shardsAll, tokens, i, sourceBuilt, bootstrapCalls, result, exited,
                   exitStatus>>

\* lines 228-233: one iteration, in whatever order the map yields
ReportShard ==
    /\ ~exited /\ pc = "shards"
    /\ \E shard \in ShardsToVisit(result, reported) :
          /\ log' = Append(log, Line("shard result", shard, result.shardResults[shard], 0))
          /\ reported' = reported \cup {shard}
    /\ UNCHANGED <<flags, pc, pcL, listenErr, startInclusive, endExclusive, shardTimeRanges,
                   shardsAll, tokens, i, sourceBuilt, bootstrapCalls, result, exited,
                   exitStatus>>

\* line 234: main returns once the range loop is through
Return ==
    /\ ~exited /\ pc = "shards"
    /\ reported = DOMAIN result.shardResults
    /\ ShardsToVisit(result, reported) = {}
    /\ pc' = "returned"
    /\ Exit(0)
    /\ UNCHANGED <<flags, pcL, listenErr, startInclusive, endExclusive, shardTimeRanges,
                   shardsAll, tokens, i, sourceBuilt, bootstrapCalls, result, reported, log>>

(***************************************************************************)
(* The debug listener goroutine (lines 68-74).                             *)
(***************************************************************************)
\* line 69
ListenerStart ==
    /\ ~exited /\ pcL = "start"
    /\ log' = Append(log, Line("starting debug listen server", NoShard, 0, 0))
    /\ pcL' = "listen"
    /\ UNCHANGED <<flags, pc, listenErr, startInclusive, endExclusive, shardTimeRanges,
                   shardsAll, tokens, i, sourceBuilt, bootstrapCalls, result, reported,
                   exited, exitStatus>>

\* line 70: returns an error, or serves and does not return
ListenAndServe ==
    /\ ~exited /\ pcL = "listen"
    /\ \E err \in BOOLEAN :
          /\ listenErr' = err
          /\ pcL' = ListenerOnError(err)
    /\ UNCHANGED <<flags, pc, startInclusive, endExclusive, shardTimeRanges, shardsAll,
                   tokens, i, sourceBuilt, bootstrapCalls, result, reported, log, exited,
                   exitStatus>>

\* lines 71-73
ListenerFatal ==
    /\ ~exited /\ pcL = "failed"
    /\ Fatal("could not start debug listen server")
    /\ pcL' = "fatal"
    /\ UNCHANGED <<flags, pc, listenErr, startInclusive, endExclusive, shardTimeRanges,
                   shardsAll, tokens, i, sourceBuilt, bootstrapCalls, result, reported>>

Next ==
    \/ CheckFlags
    \/ StartDebugListener
    \/ ComputeRange
    \/ PlanShards
    \/ ParseShard
    \/ CountShard
    \/ Configure
    \/ NewCommitLogBootstrapper
    \/ NewMetadata
    \/ Bootstrap
    \/ ReportAggregate
    \/ ReportShard
    \/ Return
    \/ ListenerStart
    \/ ListenAndServe
    \/ ListenerFatal

Spec == Init /\ [][Next]_vars

(***************************************************************************)
(* Vocabulary of the properties.                                           *)
(***************************************************************************)
SeqRange(q) == {q[j] : j \in 1 .. Len(q)}

\* a < b on Go ints
IntLess(a, b) ==
    \/ a.top < b.top
    \/ a.top = b.top /\ a.hi < b.hi
    \/ a.top = b.top /\ a.hi = b.hi /\ a.lo < b.lo

Requested == DOMAIN shardTimeRanges

TheRange == <<startInclusive, endExclusive>>

\* the planner is through and the map is what source.Bootstrap gets
Planned == pc \in {"configure", "source", "metadata", "bootstrap", "aggregate", "shards", "returned"}

\* the main path has not got past the planner
InPlanner == pc \in {"flags", "debug", "range", "plan", "list", "count"}

ListGiven == TrimSpace(flags.shards) # <<>>

Trimmed(s) == {TrimSpace(t) : t \in SeqRange(Split(s))}

EveryTokenParses == \A t \in Trimmed(flags.shards) : t # <<>> /\ ~Atoi(t).err

SomeTokenFails == \E t \in Trimmed(flags.shards) : t = <<>> \/ Atoi(t).err

\* the shard ids the tokens of the list parse to
ParsedIds == {Uint32(Atoi(t).value) : t \in {u \in Trimmed(flags.shards) : u # <<>> /\ ~Atoi(u).err}}

LinesOf(msg) == {j \in 1 .. Len(log) : log[j].msg = msg}

PipelineUntouched == ~sourceBuilt /\ bootstrapCalls = 0 /\ ~result.ok

(***************************************************************************)
(* C1.  For any blockSize and referenceTime the window is                  *)
(* [truncate - blockSize, truncate + 2*blockSize): it is 3*blockSize long  *)
(* and startInclusive <= truncate < endExclusive, so start < end.          *)
(* Fails on the code for blockSize <= 0, which the flag accepts.           *)
(***************************************************************************)
C1_Window ==
    pc \notin {"flags", "debug", "range"} =>
        LET t == Truncate(flags.currentUnixTimestamp, flags.blockSize)
        IN  /\ startInclusive = t - flags.blockSize
            /\ endExclusive = t + 2 * flags.blockSize
            /\ endExclusive - startInclusive = 3 * flags.blockSize
            /\ startInclusive <= t
            /\ t < endExclusive
            /\ startInclusive < endExclusive

(***************************************************************************)
(* C2.  With an explicit shard list whose tokens all parse, the map given  *)
(* to the bootstrap call has exactly the distinct parsed shard ids as      *)
(* keys, each mapped to the single range [startInclusive, endExclusive);   *)
(* duplicates collapse to one entry, and the list is not rejected.         *)
(***************************************************************************)
C2_ListEntries ==
    (ListGiven /\ EveryTokenParses) =>
        /\ Planned =>
              /\ Requested = ParsedIds
              /\ \A k \in Requested : shardTimeRanges[k] = {TheRange}
              /\ Cardinality(Requested) = Cardinality(ParsedIds)
              /\ Len(shardsAll) = Len(Split(flags.shards))
        /\ (exited /\ InPlanner) => pcL = "fatal" \/ pc = "flags"

C2_Witness ==
    /\ pc = "bootstrap"
    /\ ListGiven /\ EveryTokenParses
    /\ Cardinality(Requested) = 2
    /\ Len(shardsAll) = 3

(***************************************************************************)
(* C3.  As claimed: without a list and with shards-count = N > 0 the map   *)
(* has exactly N entries, the ids of [0, N), for every N, 2^32 and above   *)
(* included.  Fails on the code: the loop bound is uint32(N).              *)
(***************************************************************************)
ProbeIds == Requested \cup U32Below(<<0, MaxCount + 2>>)

C4_NoSelection ==
    (~ListGiven /\ ~IsPositive(flags.shardsCount)) =>
        /\ pc \in {"flags", "debug", "range", "plan"}
        /\ PipelineUntouched
        /\ Requested = {}
        /\ exited => exitStatus = 1

C4_Witness ==
    /\ exited /\ exitStatus = 1 /\ pc = "plan" /\ pcL = "none"
    /\ flags.shards # <<>> /\ ~ListGiven
    /\ flags.shardsCount = ToInt(0)

(***************************************************************************)
(* C5.  As claimed: when a token of the list is empty after trimming or    *)
(* does not parse, the tool exits with status 1, the pipeline is never     *)
(* invoked, and no entry for an earlier valid token is in the map at the   *)
(* fatal exit.  Fails on the code: entries are added token by token.       *)
(***************************************************************************)
C5_Original ==
    (ListGiven /\ SomeTokenFails) =>
        /\ InPlanner /\ PipelineUntouched
        /\ exited => (exitStatus = 1 /\ Requested = {})

(***************************************************************************)
(* C5, amended.  When a token of the list is empty after trimming or does  *)
(* not parse, the tool never gets past the planner, so the pipeline is     *)
(* never constructed or invoked and no ShardTimeRanges reaches it, and     *)
(* every exit has status 1; the map may hold the earlier valid tokens.     *)
(***************************************************************************)
C5_BadToken ==
    (ListGiven /\ SomeTokenFails) =>
        /\ InPlanner /\ pc # "count" /\ PipelineUntouched
        /\ Requested \subseteq ParsedIds
        /\ exited => exitStatus = 1

C5_Witness ==
    /\ exited /\ exitStatus = 1 /\ pc = "list" /\ pcL = "none"
    /\ ListGiven /\ SomeTokenFails
    /\ Cardinality(Requested) = 2
    /\ log # <<>> /\ log[Len(log)].msg = "could not parse shard"

(***************************************************************************)
(* C6.  The list takes precedence over the count: with a non-blank shards  *)
(* flag the count loop is never entered and the shards bootstrapped are a  *)
(* function of the list alone, whatever shards-count is; the count gives   *)
(* entries only when the list is blank.                                    *)
(***************************************************************************)
C6_ListPrecedence ==
    /\ ListGiven =>
          /\ pc # "count"
          /\ i = <<0, 0>>
          /\ Requested \subseteq ParsedIds
          /\ Planned => (Requested = ParsedIds /\ EveryTokenParses)
    /\ ~ListGiven =>
          /\ pc # "list"
          /\ tokens = <<>>
          /\ Requested \subseteq U32Below(Uint32(flags.shardsCount))

C6_Witness ==
    /\ pc = "bootstrap"
    /\ ListGiven
    /\ IsPositive(flags.shardsCount) /\ Uint32(flags.shardsCount) = <<0, MaxCount>>
    /\ Requested # U32Below(Uint32(flags.shardsCount))
    /\ Requested # {}

(***************************************************************************)
(* C7.  The bootstrap call runs at most once and is never retried: an      *)
(* error of NewCommitLogBootstrapper, of NewMetadata or of Bootstrap ends  *)
(* the process at once with a non-zero status and without a "bootstrapped" *)
(* or "shard result" line; status 0 comes only after one successful call.  *)
(***************************************************************************)
FatalLines ==
    LinesOf("bootstrapper error") \cup LinesOf("metadata error") \cup LinesOf("failed to bootstrap")

\* C7: one bootstrap attempt at most, every error fatal at once, 0 only after success
C7_SingleAttempt ==
    /\ bootstrapCalls <= 1
    /\ (exited /\ exitStatus = 0) => (bootstrapCalls = 1 /\ result.ok /\ sourceBuilt)
    /\ (bootstrapCalls = 1 /\ ~result.ok) =>
          /\ exited /\ exitStatus # 0
          /\ pc = "bootstrap"
          /\ LinesOf("failed to bootstrap") # {}
    /\ FatalLines # {} =>
          /\ exited /\ exitStatus # 0
          /\ LinesOf("bootstrapped") = {} /\ LinesOf("shard result") = {}
          /\ log[Len(log)].msg \in {"bootstrapper error", "metadata error", "failed to bootstrap"}
    /\ (LinesOf("bootstrapped") # {} \/ LinesOf("shard result") # {}) => result.ok

C7_Witness ==
    /\ exited /\ exitStatus = 1
    /\ bootstrapCalls = 1 /\ ~result.ok
    /\ LinesOf("failed to bootstrap") # {}

(***************************************************************************)
(* C8.  As claimed: with a debug listen address, once ListenAndServe has   *)
(* failed the process ends with a non-zero status in every interleaving.   *)
(* Fails on the code: main does not wait for the goroutine and can return  *)
(* with status 0 before the goroutine reaches its fatal log.               *)
(***************************************************************************)
C8_Original ==
    (flags.debugListenAddress # <<>> /\ listenErr /\ exited) => exitStatus # 0

(***************************************************************************)
(* C8, amended.  With a debug listen address, a failure of ListenAndServe  *)
(* leads the goroutine to the fatal log, which ends the whole process with *)
(* status 1 if the goroutine runs it before the main path has returned;    *)
(* the main path does not wait for it.  No step of the listener changes    *)
(* the state of the planner, the assembler or the bootstrap call, and      *)
(* without a debug listen address there is no listener.                    *)
(***************************************************************************)
PlannerState ==
    <<flags, pc, startInclusive, endExclusive, shardTimeRanges, shardsAll, tokens, i,
      sourceBuilt, bootstrapCalls, result, reported>>

C8_ListenerState ==
    /\ listenErr => pcL \in {"failed", "fatal"}
    /\ pcL = "fatal" => (listenErr /\ exited /\ exitStatus = 1)
    /\ pcL = "failed" => (listenErr /\ (exited => (exitStatus = 0 => pc = "returned")))
    /\ pcL # "none" => flags.debugListenAddress # <<>>
    /\ LinesOf("could not start debug listen server") # {} => pcL = "fatal"

\* C8, amended: a failed listener is fatal once its goroutine runs the fatal log,
\* and no listener step changes the planner state
C8_ListenerFatal ==
    /\ []C8_ListenerState
    /\ [][(pcL # "none" /\ pcL' # pcL) => UNCHANGED PlannerState]_vars
    /\ [][(pcL = "failed" /\ pcL' # pcL) => (exited' /\ exitStatus' = 1)]_vars

C8_Witness ==
    /\ pcL = "fatal" /\ exited /\ exitStatus = 1
    /\ pc = "shards" /\ reported # {}

(***************************************************************************)
(* C9.  After a successful bootstrap the reporter writes one aggregate     *)
(* line with the number of shard results and of unfulfilled ranges, and    *)
(* after it one line per shard of the result, none twice and, when main    *)
(* returns, none missing; the result itself is left unchanged.             *)
(***************************************************************************)
C9_ReportState ==
    LET agg == LinesOf("bootstrapped")
        per == LinesOf("shard result")
    IN  /\ Cardinality(agg) <= 1
        /\ \A a \in agg :
              /\ log[a].n = Cardinality(DOMAIN result.shardResults)
              /\ log[a].m = result.unfulfilled
              /\ result.ok
        /\ \A j \in per :
              /\ \E a \in agg : a < j
              /\ log[j].shard \in DOMAIN result.shardResults
              /\ log[j].n = result.shardResults[log[j].shard]
              /\ \A k \in per : log[k].shard = log[j].shard => k = j
        /\ {log[j].shard : j \in per} = reported
        /\ (exited /\ exitStatus = 0) =>
              /\ Cardinality(agg) = 1
              /\ {log[j].shard : j \in per} = DOMAIN result.shardResults
              /\ \A a \in agg : Cardinality(per) = log[a].n

\* C9: one aggregate line, then one line per shard of the result, result unchanged
C9_Report ==
    /\ []C9_ReportState
    /\ [][(pc \in {"aggregate", "shards"}) => (result' = result)]_vars

C9_Witness ==
    /\ exited /\ exitStatus = 0 /\ pc = "returned"
    /\ Cardinality(LinesOf("shard result")) = 2
    /\ Cardinality(DOMAIN result.shardResults) = 2

(***************************************************************************)
(* C10.  Every token of the list is parsed as a non-negative integer: a    *)
(* negative token or one beyond 32 bits never gives an entry, so every key *)
(* of the map is the numeric value of some token.  Fails on the code:      *)
(* Atoi accepts "-1" and uint32(-1) is the key 4294967295.                 *)
(***************************************************************************)
C10_KeysAreTokenValues ==
    ListGiven =>
        \A k \in Requested :
            \E t \in Trimmed(flags.shards) :
                t # <<>> /\ ~Atoi(t).err /\ Atoi(t).value = Widen(k)
====
